---- MODULE Spec2Model ----
(***************************************************************************)
(* Model of src/database.py (class AsyncDatabase): the durable tables      *)
(* `checks` and `google_sheet_data`, the in-memory roster cache, the       *)
(* request-path coroutines get_user_data and insert_check_link, and the    *)
(* background synchronizer with its start/stop owner.                      *)
(*                                                                         *)
(* Granularity.  All statements go through ONE psycopg connection in       *)
(* autocommit mode (database.py:22-38).  A coroutine suspends at every     *)
(* `await cursor.execute(...)`; the statement then runs as one atomic      *)
(* database transaction, and the code that follows it up to the next       *)
(* execute (cursor.fetchone() reads the result already received) runs      *)
(* without yielding to the event loop.  One action of the model is         *)
(* therefore: one statement plus the synchronous code after it.  Code      *)
(* between two awaits that touches no statement (the cache-hit path,       *)
(* start_googlesheets_sync) is one action as well.                         *)
(*                                                                         *)
(* Inputs.  A chat_id always comes with the username of its user           *)
(* (UsernameOf); fetch_list returns one of Payloads; one                   *)
(* stop_background_sync call is in progress at a time.  The values of      *)
(* config.TTL and config.GEOM_SEQ_R are not in the sources: TTL is one     *)
(* clock unit and the ratio is 1/2.                                        *)
(*                                                                         *)
(* Specifications.  Spec is the request path running against the           *)
(* synchronizer loop, with the database executing every statement it is    *)
(* given (a failing UPDATE of the synchronizer touches no state the        *)
(* request path reads); LifeSpec is the synchronizer with its exception    *)
(* handler and with its owner starting, stopping and cancelling it;        *)
(* LiveLifeSpec and LiveSyncSpec add the fairness of the event loop's      *)
(* timers; AllocSpec tabulates the amount computation of get_user_data.    *)
(* Amounts are computed in exact arithmetic.                               *)
(***************************************************************************)
EXTENDS Integers, Sequences, FiniteSets, TLC

\* ------------------------------------------------------------------ bounds
\* Largest value of the clock time.time() (in units of TTL).
MaxTime == 2
\* Number of request-path calls (get_user_data, insert_check_link) in a run.
MaxCalls == 3
\* Number of start_googlesheets_sync calls that create a task.
MaxStarts == 2
\* Largest total_people the allocator is tabulated for.
MaxPeople == 4
\* Largest total_sum of the dense range the allocator is tabulated for.
MaxAmount == 30

\* --------------------------------------------------------- configuration
\* config.TTL, read into _cache_ttl; also the synchronizer's poll interval.
TTL == 1
\* config.GEOM_SEQ_R as the fraction RNum / RDen.
RNum == 1
RDen == 2

\* ------------------------------------------------------------ value sets
\* chat_id values (participant keys) and the request-path coroutine slots.
ChatIds == {1, 2}
Procs == {1, 2}
TaskIds == 1..MaxStarts

\* update.effective_user.username of the user behind a chat_id.
UsernameOf(c) == IF c = 1 THEN "u1" ELSE "u2"

\* Python's None, and the absence of a row.
NoneValue == [py |-> "None"]
NoRow == [row |-> "absent"]

Range(s) == {s[i] : i \in DOMAIN s}

RECURSIVE Pow(_, _)
Pow(b, e) == IF e = 0 THEN 1 ELSE b * Pow(b, e - 1)

\* What google_sheets.fetch_list can return: None (any exception inside it),
\* or a dict whose total_people / total_sum are ints or None.
Payloads ==
    { [kind |-> "none"],
      [kind |-> "dict", column_A_list |-> <<"u1", "u2">>, total_people |-> 2,
       total_sum |-> 100, people_int |-> TRUE, sum_int |-> TRUE],
      [kind |-> "dict", column_A_list |-> <<"u2">>, total_people |-> 3,
       total_sum |-> 600, people_int |-> TRUE, sum_int |-> TRUE],
      [kind |-> "dict", column_A_list |-> <<"u1">>, total_people |-> 0,
       total_sum |-> 0, people_int |-> FALSE, sum_int |-> TRUE] }

\* The dict fetch_list builds (google_sheets.py:80-84): three keys, no paid set.
SheetDict(p) ==
    [column_A_list |-> p.column_A_list, total_people |-> p.total_people,
     total_sum |-> p.total_sum]

\* The ratios r = rn / rd the allocator is tabulated for: 0 < r < 1, and r = 1.
Ratios == {<<1, 2>>, <<1, 3>>, <<2, 3>>, <<3, 4>>, <<1, 1>>}

\* The total_sum values the allocator is tabulated for.
Amounts == (0 .. MaxAmount) \cup {100, 600}

VARIABLES
    checks,        \* table checks: chat_id -> row or NoRow
    sheet,         \* the single row of table google_sheet_data
    cache,         \* self._sheet_cache
    cache_ts,      \* self._cache_timestamp
    now,           \* time.time()
    pc,            \* request coroutine slot -> position
    loc,           \* request coroutine slot -> locals and result
    calls,         \* request-path calls made so far
    bgTask,        \* self._background_task (0 = None, else a task id)
    stopEvent,     \* self._stop_event
    task,          \* task id -> the _sync_google_sheets coroutine's state
                   \* (position, prev_data_hash, the payload being written,
                   \* the last error delay)
    stop,          \* the stop_background_sync coroutine
    starts,        \* tasks created so far
    alloc          \* a table of the amount computation: its inputs, and the
                   \* amounts computed for the orders 0, 1, ... so far

vars == <<checks, sheet, cache, cache_ts, now, pc, loc, calls,
          bgTask, stopEvent, task, stop, starts, alloc>>

dbVars == <<checks, sheet>>
cacheVars == <<cache, cache_ts>>
reqVars == <<pc, loc, calls>>
syncVars == <<bgTask, stopEvent, task, stop, starts>>

\* ------------------------------------------------------------ pure parts

\* A validation that accepts every dict.
IsValidSheetDataAnyDict(p) ==
    p.kind = "dict"

\* _is_valid_sheet_data, applied to what fetch_list returned.
IsValidSheetData(p) ==
    /\ p.kind = "dict"
    /\ p.people_int
    /\ p.sum_int

\* hash(str(google_sheet_data)): equal exactly for equal contents.
DataHash(d) == [hash |-> <<d.column_A_list, d.total_people, d.total_sum>>]

\* A first term that is not divided by 1 - r ** total_people.
AmountDueUnnormalised(count, total_people, total_sum, rn, rd) ==
    IF total_people > 0 /\ rn # rd
    THEN LET num == total_sum * (rd - rn) * Pow(rn, count)
             den == rd * Pow(rd, count)
         IN (2 * num + den) \div (2 * den)
    ELSE total_sum \div (IF total_people > 1 THEN total_people ELSE 1)

\* A share that is divided, not multiplied, by r at every order.
AmountDueGrowing(count, total_people, total_sum, rn, rd) ==
    IF total_people > 0 /\ rn # rd
    THEN LET num == total_sum * (rd - rn) * Pow(rd, count)
                      * Pow(rd, total_people)
             den == rd * Pow(rn, count)
                      * (Pow(rd, total_people) - Pow(rn, total_people))
         IN (2 * num + den) \div (2 * den)
    ELSE total_sum \div (IF total_people > 1 THEN total_people ELSE 1)

\* Lines 235-239 for config.GEOM_SEQ_R = rn / rd:
\* int(geom_seq_a * r ** count + 0.5) with
\* geom_seq_a = total_sum * (1 - r) / (1 - r ** total_people), in exact
\* arithmetic (num / den is geom_seq_a * r ** count); the equal split
\* total_sum // max(total_people, 1) when total_people <= 0 or r = 1.
AmountDue(count, total_people, total_sum, rn, rd) ==
    IF total_people > 0 /\ rn # rd
    THEN LET num == total_sum * (rd - rn) * Pow(rn, count)
                      * Pow(rd, total_people)
             den == rd * Pow(rd, count)
                      * (Pow(rd, total_people) - Pow(rn, total_people))
         IN (2 * num + den) \div (2 * den)
    ELSE total_sum \div (IF total_people > 1 THEN total_people ELSE 1)

\* int(geom_seq_a * r ** count) : the amount cut off, not rounded.
SumToPayTruncated(count, total_people, total_sum) ==
    IF total_people > 0 /\ RNum # RDen
    THEN LET num == total_sum * (RDen - RNum) * Pow(RNum, count)
                      * Pow(RDen, total_people)
             den == RDen * Pow(RDen, count)
                      * (Pow(RDen, total_people) - Pow(RNum, total_people))
         IN num \div den
    ELSE total_sum \div (IF total_people > 1 THEN total_people ELSE 1)

\* sum_to_pay of lines 235-239 with the configured ratio RNum / RDen.
SumToPay(count, total_people, total_sum) ==
    AmountDue(count, total_people, total_sum, RNum, RDen)

\* SELECT COALESCE(MAX(count), -1) + 1 FROM checks
NextCount(tbl) ==
    LET counts == {tbl[c].count : c \in {x \in ChatIds : tbl[x] # NoRow}}
    IN IF counts = {} THEN 0
       ELSE (CHOOSE m \in counts : \A n \in counts : n <= m) + 1

\* sheet_data.get("paid_usernames", [])
PaidUsernames(sheet_data) ==
    IF "paid_usernames" \in DOMAIN sheet_data
    THEN sheet_data.paid_usernames ELSE <<>>

\* A test that looks at the snapshot only, not at its age.
CacheFreshHeld(t) ==
    cache # NoneValue

\* The freshness test of _get_cached_sheet_data at time t.
CacheFresh(t) ==
    /\ cache # NoneValue
    /\ t - cache_ts < TTL

\* The dict _get_cached_sheet_data builds from the durable row.
RowDict(row) ==
    [total_people |-> row.total_people, total_sum |-> row.total_sum,
     column_A_list |-> row.people_usernames,
     paid_usernames |-> row.paid_usernames]

\* An UPDATE that rewrites the whole row, the paid set included.
UpdateSheetRowReset(row, data) ==
    [total_people |-> data.total_people, total_sum |-> data.total_sum,
     people_usernames |-> data.column_A_list, paid_usernames |-> <<>>]

\* UPDATE google_sheet_data SET total_people, total_sum, people_usernames.
UpdateSheetRow(row, data) ==
    [row EXCEPT !.total_people = data.total_people,
                !.total_sum = data.total_sum,
                !.people_usernames = data.column_A_list]

\* array_append without the membership test.
AppendPaidAlways(paid, u) ==
    Append(paid, u)

\* CASE WHEN NOT (u = ANY(paid_usernames)) THEN array_append(...) ELSE ... END
AppendPaid(paid, u) ==
    IF u \in Range(paid) THEN paid ELSE Append(paid, u)

\* An UPDATE that also refreshes the roster size kept in the row.
UpdatedCheckResized(row) ==
    [row EXCEPT !.received = TRUE, !.total_people = sheet.total_people]

\* UPDATE checks SET check_link, check_file_id, check_received_at = NOW()
UpdatedCheck(row) ==
    [row EXCEPT !.received = TRUE]

\* INSERT INTO checks (chat_id, username, count, total_people, sum_to_pay)
NewCheck(count, total_people, sum_to_pay) ==
    [count |-> count, total_people |-> total_people,
     sum_to_pay |-> sum_to_pay, received |-> FALSE]

IdleLoc == [op |-> "none"]

\* A task id no create_task has produced yet.
NoTask == [pc |-> "none", prev |-> NoneValue, data |-> NoneValue, delay |-> 0]

\* No amount table: the allocator runs inside get_user_data only.
NoAlloc == [n |-> 0, total |-> 0, rn |-> RNum, rd |-> RDen, amounts |-> <<>>]

\* -------------------------------------------------------------- Init

\* The state create() leaves (lines 10-17, 36-74), before the first start.
StoreInit ==
    /\ checks = [c \in ChatIds |-> NoRow]
    /\ sheet = [total_people |-> 0, total_sum |-> 0,
                people_usernames |-> <<>>, paid_usernames |-> <<>>]
    /\ cache = NoneValue
    /\ cache_ts = 0
    /\ now = TTL
    /\ pc = [p \in Procs |-> "idle"]
    /\ loc = [p \in Procs |-> IdleLoc]
    /\ calls = 0
    /\ bgTask = 0
    /\ stopEvent = FALSE
    /\ task = [t \in TaskIds |-> NoTask]
    /\ stop = [pc |-> "idle", target |-> 0]
    /\ starts = 0

Init ==
    /\ StoreInit
    /\ alloc = NoAlloc

\* The amount computation on its own: any roster size, total and ratio.
AllocInit ==
    /\ StoreInit
    /\ alloc \in {[n |-> n, total |-> a, rn |-> r[1], rd |-> r[2], amounts |-> <<>>] :
                    n \in 1 .. MaxPeople, a \in Amounts, r \in Ratios}

\* ------------------------------------------------ request path: get_user_data

\* The slot a new handler invocation runs in: the first slot never used, or,
\* when every slot has been used, any slot whose call has returned (its
\* result is then forgotten).  Slots are interchangeable.
FreeSlot(p) ==
    \/ /\ pc[p] = "idle"
       /\ \A q \in Procs : q < p => pc[q] # "idle"
    \/ /\ pc[p] = "done"
       /\ \A q \in Procs : pc[q] # "idle"

\* A call that goes on to the SELECT on checks for any username.
AfterSnapshotAnyUsername(p, c, sheet_data) ==
    /\ pc' = [pc EXCEPT ![p] = "sel_existing"]
    /\ loc' = [loc EXCEPT ![p] =
                 [op |-> "get", chat |-> c,
                  total_people |-> sheet_data.total_people,
                  total_sum |-> sheet_data.total_sum,
                  paid |-> UsernameOf(c) \in Range(PaidUsernames(sheet_data))]]

\* get_user_data lines 207-217, once _get_cached_sheet_data has returned
\* sheet_data: a username outside column_A_list gets the all-None result,
\* any other goes on to the SELECT on checks.  The all-None result notes,
\* for the properties below, whether a row of the chat_id existed then.
AfterSnapshot(p, c, sheet_data) ==
    LET listed == UsernameOf(c) \in Range(sheet_data.column_A_list)
        paid == UsernameOf(c) \in Range(PaidUsernames(sheet_data))
    IN IF ~listed
       THEN /\ pc' = [pc EXCEPT ![p] = "done"]
            /\ loc' = [loc EXCEPT ![p] =
                         [op |-> "get", chat |-> c,
                          result |-> [kind |-> "none",
                                      had_row |-> checks[c] # NoRow]]]
       ELSE /\ pc' = [pc EXCEPT ![p] = "sel_existing"]
            /\ loc' = [loc EXCEPT ![p] =
                         [op |-> "get", chat |-> c,
                          total_people |-> sheet_data.total_people,
                          total_sum |-> sheet_data.total_sum, paid |-> paid]]

\* A call whose snapshot comes from the fresh cache (lines 170-175, 207-217).
GetCallHit(p, c) ==
    /\ FreeSlot(p)
    /\ calls < MaxCalls
    /\ CacheFresh(now)
    /\ calls' = calls + 1
    /\ AfterSnapshot(p, c, cache)
    /\ UNCHANGED <<dbVars, cacheVars, now, syncVars, alloc>>

\* A call that finds the cache absent or stale: current_time is taken and
\* the coroutine suspends in the SELECT on google_sheet_data (lines 170-179).
GetCallMiss(p, c) ==
    /\ FreeSlot(p)
    /\ calls < MaxCalls
    /\ ~CacheFresh(now)
    /\ calls' = calls + 1
    /\ pc' = [pc EXCEPT ![p] = "reload"]
    /\ loc' = [loc EXCEPT ![p] = [op |-> "get", chat |-> c, current_time |-> now]]
    /\ UNCHANGED <<dbVars, cacheVars, now, syncVars, alloc>>

\* A reload that stores what the row held before the first update.
ReloadBeforeFirstUpdate(p) ==
    /\ pc[p] = "reload"
    /\ cache' = RowDict([sheet EXCEPT !.total_people = 0, !.total_sum = 0,
                                      !.people_usernames = <<>>])
    /\ cache_ts' = loc[p].current_time
    /\ AfterSnapshot(p, loc[p].chat, RowDict(sheet))
    /\ UNCHANGED <<dbVars, now, calls, syncVars, alloc>>

\* The SELECT on google_sheet_data and the cache store (lines 179-194),
\* then lines 207-217.
Reload(p) ==
    /\ pc[p] = "reload"
    /\ cache' = RowDict(sheet)
    /\ cache_ts' = loc[p].current_time
    /\ AfterSnapshot(p, loc[p].chat, RowDict(sheet))
    /\ UNCHANGED <<dbVars, now, calls, syncVars, alloc>>

\* A return that recomputes the amount from the snapshot of this call.
ExistingResultRecomputed(existing, l) ==
    [kind |-> "row",
     sum_to_pay |-> SumToPay(existing.count, l.total_people, l.total_sum),
     count |-> existing.count,
     total_people |-> l.total_people, total_sum |-> l.total_sum, paid |-> l.paid]

\* What get_user_data returns for an existing row (line 228).
ExistingResult(existing, l) ==
    [kind |-> "row", sum_to_pay |-> existing.sum_to_pay, count |-> existing.count,
     total_people |-> l.total_people, total_sum |-> l.total_sum, paid |-> l.paid]

\* SELECT count, sum_to_pay, total_people FROM checks WHERE chat_id (220-228).
SelectExisting(p) ==
    /\ pc[p] = "sel_existing"
    /\ LET existing == checks[loc[p].chat]
       IN IF existing # NoRow
          THEN /\ pc' = [pc EXCEPT ![p] = "done"]
               /\ loc' = [loc EXCEPT ![p] =
                            [op |-> "get", chat |-> loc[p].chat,
                             result |-> ExistingResult(existing, loc[p])]]
          ELSE /\ pc' = [pc EXCEPT ![p] = "sel_max"]
               /\ UNCHANGED loc
    /\ UNCHANGED <<dbVars, cacheVars, now, calls, syncVars, alloc>>

\* SELECT COALESCE(MAX(count), -1) + 1 and the amount (lines 231-239).
SelectMax(p) ==
    /\ pc[p] = "sel_max"
    /\ LET count == NextCount(checks)
           l == loc[p]
       IN loc' = [loc EXCEPT ![p] =
                    [op |-> "get", chat |-> l.chat, total_people |-> l.total_people,
                     total_sum |-> l.total_sum, paid |-> l.paid, count |-> count,
                     sum_to_pay |-> SumToPay(count, l.total_people, l.total_sum)]]
    /\ pc' = [pc EXCEPT ![p] = "insert"]
    /\ UNCHANGED <<dbVars, cacheVars, now, calls, syncVars, alloc>>

\* INSERT INTO checks (lines 242-250); chat_id is the primary key, so the
\* statement raises when a row for the chat_id exists by now.
InsertCheck(p) ==
    /\ pc[p] = "insert"
    /\ LET l == loc[p]
       IN IF checks[l.chat] # NoRow
          THEN /\ loc' = [loc EXCEPT ![p] =
                            [op |-> "get", chat |-> l.chat,
                             result |-> [kind |-> "error"]]]
               /\ UNCHANGED checks
          ELSE /\ checks' = [checks EXCEPT ![l.chat] =
                               NewCheck(l.count, l.total_people, l.sum_to_pay)]
               /\ loc' = [loc EXCEPT ![p] =
                            [op |-> "get", chat |-> l.chat,
                             result |-> [kind |-> "row", sum_to_pay |-> l.sum_to_pay,
                                         count |-> l.count,
                                         total_people |-> l.total_people,
                                         total_sum |-> l.total_sum, paid |-> l.paid]]]
    /\ pc' = [pc EXCEPT ![p] = "done"]
    /\ UNCHANGED <<sheet, cacheVars, now, calls, syncVars, alloc>>

\* ------------------------------------------- request path: insert_check_link

\* The one statement of insert_check_link (lines 256-278) and its
\* continuation (280-287).  Both data-modifying WITH queries run to
\* completion whether or not the final SELECT returns a row: the paid set
\* gets the username, and the checks row of chat_id, if any, gets the check.
InsertCheckLink(p, c) ==
    /\ FreeSlot(p)
    /\ calls < MaxCalls
    /\ calls' = calls + 1
    /\ sheet' = [sheet EXCEPT !.paid_usernames = AppendPaid(@, UsernameOf(c))]
    /\ pc' = [pc EXCEPT ![p] = "done"]
    /\ IF checks[c] = NoRow
       THEN /\ loc' = [loc EXCEPT ![p] =
                         [op |-> "icl", chat |-> c, result |-> [kind |-> "notfound"]]]
            /\ UNCHANGED <<checks, cache_ts>>
       ELSE /\ checks' = [checks EXCEPT ![c] = UpdatedCheck(@)]
            /\ loc' = [loc EXCEPT ![p] =
                         [op |-> "icl", chat |-> c,
                          result |-> [kind |-> "ok", count |-> checks[c].count,
                                      sum_to_pay |-> checks[c].sum_to_pay]]]
            /\ cache_ts' = 0
    /\ UNCHANGED <<cache, now, syncVars, alloc>>

\* time.time() advances.
Tick ==
    /\ now < MaxTime
    /\ now' = now + 1
    /\ UNCHANGED <<dbVars, cacheVars, reqVars, syncVars, alloc>>

\* ------------------------------------------------------- the synchronizer

\* A finished task (task.done() is true); its locals are gone.
DoneTask == [pc |-> "done", prev |-> NoneValue, data |-> NoneValue, delay |-> 0]

\* task.done() is false: the coroutine was created and has not finished.
Live(t) == task[t].pc \notin {"none", "done"}

\* is_sync_running (lines 294-296): a task is held and it is not done.
SyncRunning ==
    /\ bgTask # 0
    /\ Live(bgTask)

\* A guard that lets start go on exactly when a task is still running.
AlreadyRunningInverted ==
    /\ bgTask # 0
    /\ ~Live(bgTask)

\* The test of line 78: `self._background_task and not ....done()`.
AlreadyRunning ==
    /\ bgTask # 0
    /\ Live(bgTask)

\* start_googlesheets_sync (lines 76-84), one synchronous step.
Start ==
    /\ IF AlreadyRunning
       THEN UNCHANGED <<bgTask, stopEvent, task, starts>>
       ELSE /\ starts < MaxStarts
            /\ stopEvent' = FALSE
            /\ starts' = starts + 1
            /\ bgTask' = starts + 1
            /\ task' = [task EXCEPT ![starts + 1] =
                          [pc |-> "start", prev |-> NoneValue, data |-> NoneValue,
                           delay |-> 0]]
    /\ UNCHANGED <<dbVars, cacheVars, now, reqVars, stop, alloc>>

\* A loop that never looks at the stop event.
LoopTestBlind(t) ==
    task' = [task EXCEPT ![t].pc = "fetch", ![t].data = NoneValue]

\* `while not self._stop_event.is_set()` (line 112): leave the loop, or
\* suspend in `await google_sheets.fetch_list()`.
LoopTest(t) ==
    IF stopEvent
    THEN task' = [task EXCEPT ![t] = DoneTask]
    ELSE task' = [task EXCEPT ![t].pc = "fetch", ![t].data = NoneValue]

\* The task's first run (lines 108-112).
SyncBegin(t) ==
    /\ task[t].pc = "start"
    /\ LoopTest(t)
    /\ UNCHANGED <<dbVars, cacheVars, now, reqVars, bgTask, stopEvent, stop, starts, alloc>>

\* A cycle that writes every valid payload, changed or not.
SyncFetchedNoHash(t, p) ==
    /\ task[t].pc = "fetch"
    /\ IF IsValidSheetData(p)
       THEN task' = [task EXCEPT ![t].pc = "update", ![t].data = SheetDict(p)]
       ELSE task' = [task EXCEPT ![t].pc = "wait", ![t].delay = 0]
    /\ UNCHANGED <<dbVars, cacheVars, now, reqVars, bgTask, stopEvent, stop, starts, alloc>>

\* fetch_list returns p (lines 114-120): a valid payload with a new hash
\* suspends in the UPDATE, anything else goes to the interval wait.
SyncFetched(t, p) ==
    /\ task[t].pc = "fetch"
    /\ IF IsValidSheetData(p) /\ task[t].prev # DataHash(SheetDict(p))
       THEN task' = [task EXCEPT ![t].pc = "update", ![t].data = SheetDict(p)]
       ELSE task' = [task EXCEPT ![t].pc = "wait", ![t].delay = 0]
    /\ UNCHANGED <<dbVars, cacheVars, now, reqVars, bgTask, stopEvent, stop, starts, alloc>>

\* An update that stores the snapshot and leaves the timestamp for later.
SyncUpdatedSnapshotFirst(t) ==
    /\ task[t].pc = "update"
    /\ sheet' = UpdateSheetRow(sheet, task[t].data)
    /\ cache' = task[t].data
    /\ task' = [task EXCEPT ![t] = [pc |-> "wait", prev |-> DataHash(task[t].data),
                                    data |-> NoneValue, delay |-> 0]]
    /\ UNCHANGED <<checks, cache_ts, now, reqVars, bgTask, stopEvent, stop, starts, alloc>>

\* The UPDATE of _update_sheet_data and lines 121-125, then the interval wait.
SyncUpdated(t) ==
    /\ task[t].pc = "update"
    /\ sheet' = UpdateSheetRow(sheet, task[t].data)
    /\ cache' = task[t].data
    /\ cache_ts' = now
    /\ task' = [task EXCEPT ![t] = [pc |-> "wait", prev |-> DataHash(task[t].data),
                                    data |-> NoneValue, delay |-> 0]]
    /\ UNCHANGED <<checks, now, reqVars, bgTask, stopEvent, stop, starts, alloc>>

\* getattr(self, '_error_count', 0): no statement of the program assigns
\* the attribute, so the default is what the call returns.
ErrorCount == 0

\* The base and the ceiling of the error delay (line 139), in seconds.
BackoffBase == 5
BackoffCeiling == 60

Min(a, b) == IF a <= b THEN a ELSE b

\* min(60, 5 * 2**min(3, getattr(self, '_error_count', 0))): the argument
\* of asyncio.sleep on line 139.
ErrorDelay ==
    Min(BackoffCeiling, BackoffBase * Pow(2, Min(3, ErrorCount)))

\* A failure after the hash was remembered.
SyncUpdateFailsHashKept(t) ==
    /\ task[t].pc = "update"
    /\ task' = [task EXCEPT ![t].pc = "backoff", ![t].data = NoneValue,
                            ![t].prev = DataHash(task[t].data),
                            ![t].delay = ErrorDelay]
    /\ UNCHANGED <<dbVars, cacheVars, now, reqVars, bgTask, stopEvent, stop, starts, alloc>>

\* The UPDATE raises (lines 137-139): the task sleeps the error delay.
\* task[t].delay is the delay of the failing cycle, kept until a cycle
\* ends without an exception.
SyncUpdateFails(t) ==
    /\ task[t].pc = "update"
    /\ task' = [task EXCEPT ![t].pc = "backoff", ![t].data = NoneValue,
                            ![t].delay = ErrorDelay]
    /\ UNCHANGED <<dbVars, cacheVars, now, reqVars, bgTask, stopEvent, stop, starts, alloc>>

\* wait_for(self._stop_event.wait(), timeout=config.TTL) returns: break.
SyncWaitStop(t) ==
    /\ task[t].pc = "wait"
    /\ stopEvent
    /\ task' = [task EXCEPT ![t] = DoneTask]
    /\ UNCHANGED <<dbVars, cacheVars, now, reqVars, bgTask, stopEvent, stop, starts, alloc>>

\* wait_for times out: continue, and the loop test of line 112.
SyncWaitTimeout(t) ==
    /\ task[t].pc = "wait"
    /\ ~stopEvent
    /\ LoopTest(t)
    /\ UNCHANGED <<dbVars, cacheVars, now, reqVars, bgTask, stopEvent, stop, starts, alloc>>

\* A handler after which the coroutine returns.
SyncBackoffExit(t) ==
    /\ task[t].pc = "backoff"
    /\ task' = [task EXCEPT ![t] = DoneTask]
    /\ UNCHANGED <<dbVars, cacheVars, now, reqVars, bgTask, stopEvent, stop, starts, alloc>>

\* asyncio.sleep of the error delay ends: the loop test of line 112.
SyncBackoffDone(t) ==
    /\ task[t].pc = "backoff"
    /\ LoopTest(t)
    /\ UNCHANGED <<dbVars, cacheVars, now, reqVars, bgTask, stopEvent, stop, starts, alloc>>

\* ------------------------------------------------- stop_background_sync

IdleStop == [pc |-> "idle", target |-> 0]

\* A cancellation that never reaches the coroutine.
CancelTaskIgnored(t) ==
    UNCHANGED <<task, sheet>>

\* task.cancel(): CancelledError is thrown into the coroutine at its await;
\* nothing in _sync_google_sheets catches it, so the task ends.  A task
\* cancelled inside the UPDATE leaves the statement applied or not.
CancelTask(t) ==
    /\ task' = [task EXCEPT ![t] = DoneTask]
    /\ \/ UNCHANGED sheet
       \/ /\ task[t].pc = "update"
          /\ sheet' = UpdateSheetRow(sheet, task[t].data)

\* The test of line 88: `not self._background_task or ....done()`.
NothingToStop ==
    \/ bgTask = 0
    \/ ~Live(bgTask)

\* Lines 88-95: nothing to stop, or set the event and wait for the task.
StopCall ==
    /\ stop.pc = "idle"
    /\ IF NothingToStop
       THEN UNCHANGED <<stop, stopEvent>>
       ELSE /\ stopEvent' = TRUE
            /\ stop' = [pc |-> "graceful", target |-> bgTask]
    /\ UNCHANGED <<dbVars, cacheVars, now, reqVars, bgTask, task, starts, alloc>>

\* wait_for returns because the task finished by itself (lines 95, 104).
StopGraceful ==
    /\ stop.pc = "graceful"
    /\ ~Live(stop.target)
    /\ stop' = IdleStop
    /\ UNCHANGED <<dbVars, cacheVars, now, reqVars, bgTask, stopEvent, task, starts, alloc>>

\* The grace period ends first: wait_for cancels the task it waits for,
\* waits until it is done and raises TimeoutError (lines 95-96).
StopTimeout ==
    /\ stop.pc = "graceful"
    /\ Live(stop.target)
    /\ CancelTask(stop.target)
    /\ stop' = [stop EXCEPT !.pc = "timedout"]
    /\ UNCHANGED <<checks, cacheVars, now, reqVars, bgTask, stopEvent, starts, alloc>>

\* Lines 97-104: cancel and await whatever self._background_task is now
\* (cancelling a task that is done changes nothing).
StopCancel ==
    /\ stop.pc = "timedout"
    /\ IF Live(bgTask)
       THEN CancelTask(bgTask)
       ELSE UNCHANGED <<task, sheet>>
    /\ stop' = IdleStop
    /\ UNCHANGED <<checks, cacheVars, now, reqVars, bgTask, stopEvent, starts, alloc>>

\* ------------------------------------------------- the amount computation

\* Lines 235-239 for the next order: count is the number of amounts
\* computed so far, as SELECT COALESCE(MAX(count), -1) + 1 gives it when
\* the assignments are made one after the other.
AllocStep ==
    /\ Len(alloc.amounts) < alloc.n
    /\ alloc' = [alloc EXCEPT !.amounts =
                    Append(@, AmountDue(Len(alloc.amounts), alloc.n, alloc.total,
                                        alloc.rn, alloc.rd))]
    /\ UNCHANGED <<dbVars, cacheVars, now, reqVars, syncVars>>

\* ------------------------------------------------------- specifications

RequestNext ==
    \/ \E p \in Procs, c \in ChatIds : GetCallHit(p, c)
    \/ \E p \in Procs, c \in ChatIds : GetCallMiss(p, c)
    \/ \E p \in Procs : Reload(p)
    \/ \E p \in Procs : SelectExisting(p)
    \/ \E p \in Procs : SelectMax(p)
    \/ \E p \in Procs : InsertCheck(p)
    \/ \E p \in Procs, c \in ChatIds : InsertCheckLink(p, c)
    \/ Tick

\* One cycle of the synchronizer loop, from the task's creation on, with
\* the database executing the UPDATE.
CycleNext ==
    \/ Start
    \/ \E t \in TaskIds : SyncBegin(t)
    \/ \E t \in TaskIds, p \in Payloads : SyncFetched(t, p)
    \/ \E t \in TaskIds : SyncUpdated(t)
    \/ \E t \in TaskIds : SyncWaitTimeout(t)

\* A cycle that ends in the exception handler (lines 137-139).
ErrorNext ==
    \/ \E t \in TaskIds : SyncUpdateFails(t)
    \/ \E t \in TaskIds : SyncBackoffDone(t)

\* The owner stopping the synchronizer, and the loop seeing the stop.
StopNext ==
    \/ \E t \in TaskIds : SyncWaitStop(t)
    \/ StopCall
    \/ StopGraceful
    \/ StopTimeout
    \/ StopCancel

\* The request path against a running synchronizer.
Next == RequestNext \/ CycleNext

Spec == Init /\ [][Next]_vars

\* The synchronizer and its owner (start, stop, cancellation).
LifeNext == CycleNext \/ ErrorNext \/ StopNext

LifeSpec == Init /\ [][LifeNext]_vars

\* The same with the event loop's timers and callbacks firing: the grace
\* period of stop_background_sync ends, and a coroutine whose wait is over
\* is resumed.
LiveLifeSpec ==
    /\ LifeSpec
    /\ WF_vars(StopGraceful)
    /\ WF_vars(StopTimeout)
    /\ WF_vars(StopCancel)

\* The same again with the timer of asyncio.sleep firing: a task that
\* sleeps the error delay is resumed.
LiveSyncSpec ==
    /\ LiveLifeSpec
    /\ \A t \in TaskIds : WF_vars(SyncBackoffDone(t))

\* The allocator tabulated over orders 0 .. total_people - 1.
AllocNext == AllocStep

AllocSpec == AllocInit /\ [][AllocNext]_vars

\* ============================================================ properties

\* chat_ids that have a row in checks.
Assigned == {c \in ChatIds : checks[c] # NoRow}

\* The request slots whose call has returned, by operation.
Returned(op) == {p \in Procs : pc[p] = "done" /\ loc[p].op = op}

\* C1: under every interleaving of first-time get_user_data calls for
\* distinct chat_ids the stored count values are pairwise distinct, and in
\* every reachable state they are exactly 0 .. k-1 for k stored rows.
C1_DenseDistinctOrders ==
    /\ \A c, d \in Assigned : c # d => checks[c].count # checks[d].count
    /\ {checks[c].count : c \in Assigned} = 0 .. (Cardinality(Assigned) - 1)

\* C2 as stated: a get_user_data call for a chat_id that already has a row
\* returns the order and amount of that row, whatever snapshot is in effect
\* at the call (other totals, another identifier list).
C2_SameResultAnySnapshot ==
    \A p \in Returned("get") :
        /\ loc[p].result.kind = "none" => ~loc[p].result.had_row
        /\ loc[p].result.kind = "row"
           => /\ loc[p].result.count = checks[loc[p].chat].count
              /\ loc[p].result.sum_to_pay = checks[loc[p].chat].sum_to_pay

\* C2 amended: two get_user_data calls for one chat_id that both find the
\* username in the identifier list of their snapshot return the same order
\* and amount, whatever the totals of the two snapshots.
C2_SameResultWhenListed ==
    \A p, q \in Returned("get") :
        (/\ loc[p].chat = loc[q].chat
         /\ loc[p].result.kind = "row"
         /\ loc[q].result.kind = "row")
        => /\ loc[p].result.count = loc[q].result.count
           /\ loc[p].result.sum_to_pay = loc[q].result.sum_to_pay

\* Two returned calls for one chat_id, made under snapshots with different
\* totals, the amount of the row differing from what the later snapshot
\* would give.
C2_Witness ==
    \E p, q \in Returned("get") :
        /\ p # q
        /\ loc[p].chat = loc[q].chat
        /\ loc[p].result.kind = "row"
        /\ loc[q].result.kind = "row"
        /\ loc[p].result.total_sum # loc[q].result.total_sum
        /\ loc[q].result.sum_to_pay #
             SumToPay(loc[q].result.count, loc[q].result.total_people,
                      loc[q].result.total_sum)

\* C3: insert_check_link for a chat_id without a row changes no durable
\* state: neither a checks row nor the paid set of google_sheet_data.
C3_NotFoundNoMutation ==
    [][\A p \in Procs, c \in ChatIds :
          (InsertCheckLink(p, c) /\ checks[c] = NoRow)
          => UNCHANGED <<checks, sheet>>]_vars

\* C4: no get_user_data call ends in an error; a call for a listed username
\* returns the row stored for its chat_id, whoever inserted it.
C4_NoConflictError ==
    \A p \in Returned("get") :
        loc[p].result.kind # "none"
        => /\ loc[p].result.kind = "row"
           /\ checks[loc[p].chat] # NoRow
           /\ loc[p].result.count = checks[loc[p].chat].count
           /\ loc[p].result.sum_to_pay = checks[loc[p].chat].sum_to_pay

\* C5: once insert_check_link has succeeded for a participant, a snapshot
\* read served from the cache (the cache is fresh at the current time)
\* reports the participant as paid.  A read that is not served from the
\* cache returns the durable row itself.
C5_FreshCacheShowsPaid ==
    CacheFresh(now)
    => \A c \in Assigned :
          checks[c].received => UsernameOf(c) \in Range(PaidUsernames(cache))

\* C6: the paid set never holds an identifier twice, however many
\* insert_check_link calls were made for a participant.
C6_PaidSetNoDuplicates ==
    Cardinality(Range(sheet.paid_usernames)) = Len(sheet.paid_usernames)

\* Two insert_check_link calls for one chat_id have both succeeded and the
\* paid set holds the username.
C6_Witness ==
    \E p, q \in Returned("icl") :
        /\ p # q
        /\ loc[p].chat = loc[q].chat
        /\ loc[p].result.kind = "ok"
        /\ loc[q].result.kind = "ok"
        /\ UsernameOf(loc[p].chat) \in Range(sheet.paid_usernames)

\* C7: no step changes count, sum_to_pay or total_people of a row of checks
\* that exists, and no step removes the row.
C7_AssignmentFieldsFrozen ==
    [][\A c \in Assigned :
          /\ checks'[c] # NoRow
          /\ checks'[c].count = checks[c].count
          /\ checks'[c].sum_to_pay = checks[c].sum_to_pay
          /\ checks'[c].total_people = checks[c].total_people]_vars

\* A row whose check was received after the synchronizer replaced the
\* roster by one of another size, and a later get_user_data call that
\* returned the row.
C7_Witness ==
    \E p \in Returned("get") :
        /\ loc[p].result.kind = "row"
        /\ checks[loc[p].chat].received
        /\ checks[loc[p].chat].total_people # sheet.total_people
        /\ loc[p].result.total_people = sheet.total_people

\* C8: every row of checks with check_received_at set belongs to a
\* participant whose username is in paid_usernames of google_sheet_data.
C8_SubmittedImpliesPaid ==
    \A c \in Assigned :
        checks[c].received => UsernameOf(c) \in Range(sheet.paid_usernames)

\* A received check, and a roster replaced by the synchronizer after it.
C8_Witness ==
    \E c \in Assigned :
        /\ checks[c].received
        /\ checks[c].total_people # sheet.total_people

\* The synchronizer tasks that are not done.
LiveTasks == {t \in TaskIds : Live(t)}

\* C9: at most one synchronizer task is live at any time, and it is the one
\* self._background_task holds: a start while a task runs creates none.
C9_AtMostOneLiveTask ==
    /\ Cardinality(LiveTasks) <= 1
    /\ \A t \in LiveTasks : bgTask = t

\* A second task runs after the first one was stopped, and a stop of it is
\* under way: start is called here with a task still running.
C9_Witness ==
    /\ bgTask = 2
    /\ Live(2)
    /\ task[1].pc = "done"
    /\ stop.pc = "graceful"

\* C10: once stop_background_sync waits for a running task, that task
\* eventually is done, with the loop in any position; and
\* stop_background_sync returns only when the task it waited for is done.
C10_StopTerminatesTask ==
    /\ \A t \in TaskIds :
          (stop.pc = "graceful" /\ stop.target = t) ~> ~Live(t)
    /\ [][(stop.pc # "idle" /\ stop'.pc = "idle")
          => /\ task'[stop.target].pc = "done"
             /\ bgTask' = stop.target => ~SyncRunning']_vars

\* The grace period ended with the task still running: the task was
\* cancelled and is done, and stop_background_sync is about to return.
C10_Witness ==
    /\ stop.pc = "timedout"
    /\ task[stop.target].pc = "done"
    /\ stopEvent

RECURSIVE SeqSum(_)
SeqSum(s) == IF s = <<>> THEN 0 ELSE Head(s) + SeqSum(Tail(s))

\* The amount table holds an amount for every order 0 .. total_people - 1.
AllocComplete == Len(alloc.amounts) = alloc.n

\* C11: for total_people > 0, total_sum >= 0 and 0 < r < 1 the amounts of
\* the orders 0 .. total_people - 1 add up to total_sum give or take
\* total_people currency units.
C11_SumWithinRounding ==
    (AllocComplete /\ alloc.n > 0 /\ alloc.rn < alloc.rd)
    => /\ SeqSum(alloc.amounts) - alloc.total <= alloc.n
       /\ alloc.total - SeqSum(alloc.amounts) <= alloc.n

\* A complete table for three or more participants whose rounded amounts
\* do not add up to total_sum.
C11_Witness ==
    /\ AllocComplete
    /\ alloc.n >= 3
    /\ alloc.rn < alloc.rd
    /\ SeqSum(alloc.amounts) # alloc.total

\* C12: for fixed total_people and total_sum the amount of order i + 1 is
\* never more than the amount of order i when 0 < r < 1, and every order
\* gets the same amount when r = 1.
C12_NonIncreasingInOrder ==
    /\ \A i \in 1 .. (Len(alloc.amounts) - 1) :
          alloc.amounts[i + 1] <= alloc.amounts[i]
    /\ alloc.rn = alloc.rd
       => \A i, j \in 1 .. Len(alloc.amounts) : alloc.amounts[i] = alloc.amounts[j]

\* A complete table with 0 < r < 1 in which the last order owes less than
\* the first, and two neighbouring orders owe the same after rounding.
C12_Witness ==
    /\ AllocComplete
    /\ alloc.rn < alloc.rd
    /\ alloc.amounts[1] > alloc.amounts[alloc.n]
    /\ \E i \in 1 .. (alloc.n - 1) : alloc.amounts[i + 1] = alloc.amounts[i]

\* k is x = num / den rounded half up: k - 1/2 <= x < k + 1/2.
IsRoundHalfUp(k, num, den) ==
    /\ (2 * k - 1) * den <= 2 * num
    /\ 2 * num < (2 * k + 1) * den

\* k is the reference amount of an order: round-half-up of a * r^order with
\* a = total_amount * (1 - r) / (1 - r^total_participants) when
\* total_participants > 0 and r # 1, the floor of the equal split otherwise.
IsReferenceAmount(k, order, total_participants, total_amount, rn, rd) ==
    IF total_participants > 0 /\ rn # rd
    THEN IsRoundHalfUp(k,
             total_amount * (rd - rn) * Pow(rn, order) * Pow(rd, total_participants),
             rd * Pow(rd, order)
                * (Pow(rd, total_participants) - Pow(rn, total_participants)))
    ELSE LET m == IF total_participants > 1 THEN total_participants ELSE 1
         IN k * m <= total_amount /\ total_amount < (k + 1) * m

\* C13: the sum_to_pay an INSERT stores is the reference amount for the
\* snapshot's total_people and total_sum and the count of the row; and the
\* computation gives 343, 171, 86 for (3, 600, r = 1/2) and 50, 50 for
\* (2, 100, r = 1).
C13_StoredAmountIsReference ==
    /\ <<AmountDue(0, 3, 600, 1, 2), AmountDue(1, 3, 600, 1, 2),
         AmountDue(2, 3, 600, 1, 2)>> = <<343, 171, 86>>
    /\ <<AmountDue(0, 2, 100, 1, 1), AmountDue(1, 2, 100, 1, 1)>> = <<50, 50>>
    /\ [][\A p \in Procs :
            (/\ pc[p] = "insert"
             /\ pc'[p] = "done"
             /\ checks'[loc[p].chat] # checks[loc[p].chat])
            => /\ checks'[loc[p].chat].count = loc[p].count
               /\ checks'[loc[p].chat].total_people = loc[p].total_people
               /\ IsReferenceAmount(checks'[loc[p].chat].sum_to_pay, loc[p].count,
                                     loc[p].total_people, loc[p].total_sum,
                                     RNum, RDen)]_vars

\* A row created under the roster (3, 600) after another participant took
\* order 0: it has order 1 and the rounded amount 171.
C13_Witness ==
    \E c \in Assigned :
        /\ checks[c].total_people = 3
        /\ checks[c].count = 1
        /\ checks[c].sum_to_pay = 171

\* C14: a get_user_data call is served from memory, with no reload and no
\* change of the cache, exactly when a snapshot is held and its timestamp
\* is less than TTL before the call's clock reading; otherwise the call
\* goes to the SELECT on google_sheet_data, whose result replaces the
\* snapshot, with the call's clock reading as the timestamp, and is the
\* snapshot the call goes on with.
C14_ServedFromCacheIffFresh ==
    [][\A p \in Procs :
          /\ \A c \in ChatIds :
                (GetCallHit(p, c) \/ GetCallMiss(p, c))
                => IF cache # NoneValue /\ now - cache_ts < TTL
                   THEN /\ pc'[p] # "reload"
                        /\ UNCHANGED <<cache, cache_ts, sheet>>
                        /\ pc'[p] = "sel_existing"
                           => /\ loc'[p].total_people = cache.total_people
                              /\ loc'[p].total_sum = cache.total_sum
                              /\ loc'[p].paid =
                                   (UsernameOf(c) \in Range(PaidUsernames(cache)))
                   ELSE /\ pc'[p] = "reload"
                        /\ loc'[p].current_time = now
          /\ Reload(p)
             => /\ cache' = RowDict(sheet)
                /\ cache_ts' = loc[p].current_time
                /\ pc'[p] = "sel_existing"
                   => /\ loc'[p].total_people = sheet.total_people
                      /\ loc'[p].total_sum = sheet.total_sum
                      /\ loc'[p].paid =
                           (UsernameOf(loc[p].chat) \in Range(sheet.paid_usernames))]_vars

\* A call that goes on with paid = False while the durable row lists its
\* username as paid and the cache, installed by the synchronizer, is fresh:
\* the snapshot came from memory.
C14_Witness ==
    \E p \in Procs :
        /\ pc[p] = "sel_existing"
        /\ ~loc[p].paid
        /\ UsernameOf(loc[p].chat) \in Range(sheet.paid_usernames)
        /\ CacheFresh(now)
        /\ "paid_usernames" \notin DOMAIN cache
        /\ loc[p].total_sum = cache.total_sum

\* C15: a cycle goes to the UPDATE exactly when the fetched payload is valid
\* and its hash differs from prev_data_hash, and only the UPDATE step writes
\* the row and the cache and then remembers the new hash; a payload with the
\* remembered hash goes to the interval wait with row, cache and hash as
\* they were.
C15_WriteOnlyOnChangedHash ==
    [][\A t \in TaskIds :
          /\ \A p \in Payloads :
                SyncFetched(t, p)
                => /\ UNCHANGED <<sheet, cache, cache_ts>>
                   /\ task'[t].prev = task[t].prev
                   /\ task'[t].pc \in {"update", "wait"}
                   /\ (task'[t].pc = "update")
                      <=> (/\ p.kind = "dict" /\ p.people_int /\ p.sum_int
                           /\ DataHash(SheetDict(p)) # task[t].prev)
          /\ (task[t].pc = "update" /\ task'[t].pc = "wait")
             => /\ DataHash(task[t].data) # task[t].prev
                /\ task'[t].prev = DataHash(task[t].data)
                /\ cache' = task[t].data
                /\ sheet'.total_sum = task[t].data.total_sum
                /\ sheet'.people_usernames = task[t].data.column_A_list
          /\ (sheet' # sheet \/ cache' # cache)
             => \E u \in TaskIds : task[u].pc = "update" /\ task'[u].pc # "update"]_vars

\* A second payload, different from the one applied before, on its way to
\* the row.
C15_Witness ==
    \E t \in TaskIds :
        /\ task[t].pc = "update"
        /\ task[t].prev # NoneValue
        /\ DataHash(task[t].data) # task[t].prev

\* A stop was signalled, or stop_background_sync is cancelling.
StopSignalled == stopEvent \/ stop.pc # "idle"

\* C16: a task that sleeps the error delay goes on to another fetch unless
\* a stop was signalled; and a task ends only when a stop was signalled or
\* stop_background_sync cancels it, never because of an exception.
C16_LoopSurvivesExceptions ==
    /\ \A t \in TaskIds :
          (task[t].pc = "backoff") ~> (task[t].pc = "fetch" \/ StopSignalled)
    /\ [][\A t \in TaskIds :
            (Live(t) /\ ~Live(t)') => StopSignalled]_vars

\* A fetch that follows a failed cycle, with no stop signalled.
C16_Witness ==
    \E t \in TaskIds :
        /\ task[t].pc = "fetch"
        /\ task[t].delay > 0
        /\ ~StopSignalled

\* C17: the first failing cycle sleeps the base delay, and a failing cycle
\* right after a failing cycle sleeps twice the delay of that one, up to the
\* ceiling.
C17_DelayDoubles ==
    [][\A t \in TaskIds :
          (task[t].pc = "update" /\ task'[t].pc = "backoff")
          => task'[t].delay = IF task[t].delay = 0
                              THEN BackoffBase
                              ELSE Min(BackoffCeiling, 2 * task[t].delay)]_vars

\* C18: a fetch that returns None, or a dict whose total_people or total_sum
\* is no int, changes neither the row nor the cache pair nor prev_data_hash,
\* and the task goes to the interval wait.
C18_InvalidPayloadDiscarded ==
    [][\A t \in TaskIds, p \in Payloads :
          (SyncFetched(t, p) /\ (p.kind = "none" \/ ~p.people_int \/ ~p.sum_int))
          => /\ UNCHANGED <<sheet, cache, cache_ts>>
             /\ task'[t].prev = task[t].prev
             /\ task'[t].pc = "wait"]_vars

\* A task in the interval wait that has applied no payload yet: whatever it
\* fetched was discarded.
C18_Witness ==
    \E t \in TaskIds :
        /\ task[t].pc = "wait"
        /\ task[t].prev = NoneValue
        /\ cache = NoneValue

\* C19: with the stop event set, a task inside the fetch or the UPDATE ends
\* only by cancellation, and no task begins a fetch.
C19_StopSeenAtWaitOnly ==
    [][\A t \in TaskIds :
          /\ (stopEvent /\ task[t].pc \in {"fetch", "update"} /\ task'[t].pc = "done")
             => stop.pc \in {"graceful", "timedout"} /\ stop'.pc # stop.pc
          /\ (stopEvent /\ task'[t].pc = "fetch") => task[t].pc = "fetch"]_vars

\* The stop event is set and the payload of a fetch is on its way to the
\* row.
C19_Witness ==
    \E t \in TaskIds :
        /\ stopEvent
        /\ stop.pc = "graceful"
        /\ task[t].pc = "update"

\* C20: every step that replaces the snapshot sets the timestamp in the same
\* step (the synchronizer to the clock, a reload to the clock reading of its
\* call), every other change of the timestamp sets it to 0, and a call that
\* finds the timestamp fresh goes on with the snapshot held then.
C20_CachePairWrittenTogether ==
    [][/\ \A t \in TaskIds :
            (task[t].pc = "update" /\ task'[t].pc = "wait")
            => cache' = task[t].data /\ cache_ts' = now
       /\ \A p \in Procs :
            (pc[p] = "reload" /\ pc'[p] # "reload")
            => cache' = RowDict(sheet) /\ cache_ts' = loc[p].current_time
       /\ (cache' # cache \/ (cache_ts' # cache_ts /\ cache_ts' # 0))
          => \/ \E t \in TaskIds : task[t].pc = "update" /\ task'[t].pc = "wait"
             \/ \E p \in Procs : pc[p] = "reload" /\ pc'[p] # "reload"
       /\ \A p \in Procs, c \in ChatIds :
            (GetCallHit(p, c) /\ pc'[p] = "sel_existing")
            => /\ now - cache_ts < TTL
               /\ loc'[p].total_people = cache.total_people
               /\ loc'[p].total_sum = cache.total_sum]_vars

\* A reload stored the row with the clock reading of its call while the
\* clock has moved on, after the synchronizer had installed a snapshot.
C20_Witness ==
    /\ cache # NoneValue
    /\ "paid_usernames" \in DOMAIN cache
    /\ cache.total_people > 0
    /\ cache_ts > 0
    /\ cache_ts < now

\* C21: the snapshot a synchronizer update installs reports as paid every
\* member of its identifier list that the durable paid set holds; stated
\* here for the members whose check was received before the update.
C21_InstalledSnapshotCarriesPaid ==
    [][\A t \in TaskIds :
          (task[t].pc = "update" /\ task'[t].pc = "wait")
          => \A c \in Assigned :
                (/\ checks[c].received
                 /\ UsernameOf(c) \in Range(sheet'.paid_usernames)
                 /\ UsernameOf(c) \in Range(cache'.column_A_list))
                => UsernameOf(c) \in Range(PaidUsernames(cache'))]_vars

\* C22: no step removes a username from paid_usernames of google_sheet_data.
C22_PaidSetOnlyGrows ==
    [][\A u \in Range(sheet.paid_usernames) :
          u \in Range(sheet'.paid_usernames)]_vars

\* A check was received, its username is in the durable paid set, and the
\* cache is the one a synchronizer update installed after the last
\* successful insert_check_link (which had set the timestamp to 0).
C22_Witness ==
    \E c \in Assigned :
        /\ checks[c].received
        /\ UsernameOf(c) \in Range(sheet.paid_usernames)
        /\ cache # NoneValue
        /\ "paid_usernames" \notin DOMAIN cache
        /\ cache_ts > 0

\* The roster a snapshot holds, and the roster the durable row holds.
RosterOf(d) == <<d.column_A_list, d.total_people, d.total_sum>>
RowRoster(row) == <<row.people_usernames, row.total_people, row.total_sum>>

\* C23: a cycle whose UPDATE raises leaves prev_data_hash and the cache
\* pair as they were, so the hash of the payload still differs from the
\* remembered one and the next valid fetch of it goes to the UPDATE again;
\* and the hash a running task remembers is the hash of the roster the
\* durable row holds.
C23_FailedWriteKeepsHash ==
    /\ [][\A t \in TaskIds :
            /\ (task[t].pc = "update" /\ task'[t].pc = "backoff")
               => /\ task'[t].prev = task[t].prev
                  /\ UNCHANGED <<cache, cache_ts>>
                  /\ DataHash(task[t].data) # task'[t].prev
            /\ \A p \in Payloads :
                  (/\ SyncFetched(t, p)
                   /\ task[t].delay > 0
                   /\ p.kind = "dict" /\ p.people_int /\ p.sum_int
                   /\ DataHash(SheetDict(p)) # task[t].prev)
                  => task'[t].pc = "update"]_vars
    /\ [](\A t \in TaskIds :
            (Live(t) /\ task[t].prev # NoneValue)
            => task[t].prev = [hash |-> RowRoster(sheet)])

\* After a failed UPDATE that followed an applied one, a payload is on its
\* way to the row again.
C23_Witness ==
    \E t \in TaskIds :
        /\ task[t].pc = "update"
        /\ task[t].delay > 0
        /\ task[t].prev # NoneValue

\* C24: a step that writes the cache while it holds the roster of the
\* durable row leaves it with the roster of the durable row: a reload never
\* puts back what the row held before an update the cache has seen.
C24_CacheNeverRegresses ==
    [][(/\ cache # NoneValue
        /\ RosterOf(cache) = RowRoster(sheet)
        /\ <<cache, cache_ts>>' # <<cache, cache_ts>>)
       => RosterOf(cache') = RowRoster(sheet')]_vars

\* A call that read the clock before a synchronizer update and reloaded
\* after it: the cache holds the updated roster, read from the row, with a
\* timestamp older than the clock, and the task has applied that roster.
C24_Witness ==
    /\ cache # NoneValue
    /\ "paid_usernames" \in DOMAIN cache
    /\ cache.column_A_list # <<>>
    /\ cache_ts < now
    /\ \E t \in TaskIds :
          /\ task[t].pc = "wait"
          /\ task[t].prev = [hash |-> RosterOf(cache)]

\* C25: a get_user_data call whose snapshot does not list the username
\* returns the all-None result in that step and writes neither table, so
\* the next count SELECT MAX gives is what it was.
C25_UnlistedNoMutation ==
    [][\A p \in Procs :
          /\ \A c \in ChatIds :
                (GetCallHit(p, c) /\ UsernameOf(c) \notin Range(cache.column_A_list))
                => /\ pc'[p] = "done"
                   /\ loc'[p].result.kind = "none"
                   /\ UNCHANGED <<checks, sheet>>
                   /\ NextCount(checks') = NextCount(checks)
          /\ (Reload(p) /\ UsernameOf(loc[p].chat) \notin Range(sheet.people_usernames))
             => /\ pc'[p] = "done"
                /\ loc'[p].result.kind = "none"
                /\ UNCHANGED <<checks, sheet>>
                /\ NextCount(checks') = NextCount(checks)]_vars

\* An unlisted participant got the all-None result and has no row, and a
\* listed participant holds order 0.
C25_Witness ==
    \E p \in Returned("get") :
        /\ loc[p].result.kind = "none"
        /\ ~loc[p].result.had_row
        /\ checks[loc[p].chat] = NoRow
        /\ \E d \in Assigned : checks[d].count = 0

====
